---- MODULE Spec2Model ----
(***************************************************************************)
(* Model of src/commands.py (fast-import command classes): the wire        *)
(* rendering (__repr__) of every command, the debug dump (dump_str), and   *)
(* the helpers _quote_path and _format_who_when.                           *)
(*                                                                         *)
(* Text is a sequence of string tokens.  Every character of a caller       *)
(* supplied value (path, ref, mark, payload, name, e-mail) and every digit *)
(* produced by a %d conversion is one token; every literal fragment of a   *)
(* format string ("commit ", "mark :", ...) is one token, except that a    *)
(* newline is always a token of its own ("\nmark :" is "\n", "mark :").    *)
(* The tokens "NUL" and "U+00E9" stand for the characters U+0000 and       *)
(* U+00E9; the latter takes two bytes once the text is encoded for the     *)
(* stream.                                                                 *)
(*                                                                         *)
(* An optional value is a sequence of length at most one: None is <<>>,    *)
(* a present value v is <<v>>.                                             *)
(***************************************************************************)
EXTENDS Integers, Sequences, FiniteSets, TLC

VARIABLES
    cmd,        \* the command value under test (its __dict__)
    iterPos,    \* items already taken from cmd.file_iter when it is a one-shot iterator
    renders,    \* results of the successive __repr__ calls on cmd
    dump,       \* result of the last dump_str call on cmd, with its arguments
    who,        \* the tuple handed to _format_who_when on its own
    whoOut,     \* result of _format_who_when(who)
    python      \* the interpreter the module runs on: "py2" or "py3"

vars == <<cmd, iterPos, renders, dump, who, whoOut, python>>

-----------------------------------------------------------------------------
(* Bounds of the model *)

MaxPayloadLen == 2
MaxPathLen == 2
MaxRenders == 2
MaxOffsetSteps == 16

-----------------------------------------------------------------------------
(* Optional values and results *)

None == <<>>
Some(v) == <<v>>
IsNone(o) == o = <<>>
Val(o) == o[1]

Ok(t) == [ok |-> TRUE, text |-> t, err |-> ""]
Raise(e) == [ok |-> FALSE, text |-> <<>>, err |-> e]

RECURSIVE Concat(_)
\* "".join(parts)
Concat(parts) ==
    IF parts = <<>> THEN <<>> ELSE Head(parts) \o Concat(Tail(parts))

RECURSIVE SeqsUpTo(_, _)
\* every sequence over S of length at most n
SeqsUpTo(S, n) ==
    IF n = 0 THEN {<<>>}
    ELSE LET shorter == SeqsUpTo(S, n - 1)
         IN  shorter \cup {Append(s, c) : s \in shorter, c \in S}

-----------------------------------------------------------------------------
(* Number formatting: the %d and %02d conversions *)

Digit(d) ==
    CASE d = 0 -> "0" [] d = 1 -> "1" [] d = 2 -> "2" [] d = 3 -> "3"
      [] d = 4 -> "4" [] d = 5 -> "5" [] d = 6 -> "6" [] d = 7 -> "7"
      [] d = 8 -> "8" [] d = 9 -> "9"

RECURSIVE Digits(_)
\* decimal digits of n >= 0
Digits(n) ==
    IF n < 10 THEN <<Digit(n)>> ELSE Append(Digits(n \div 10), Digit(n % 10))

\* "%d" % n
FmtD(n) == IF n < 0 THEN <<"-">> \o Digits(-n) ELSE Digits(n)

\* "%02d" % n : zero-padded to a width of at least two
Fmt02D(n) ==
    IF n < 0 THEN <<"-">> \o Digits(-n)
    ELSE IF n < 10 THEN <<"0">> \o Digits(n) ELSE Digits(n)

-----------------------------------------------------------------------------
(* Arithmetic of _format_who_when.  A number is a pair <<num, den>>,       *)
(* den > 0, so that true division keeps its fractional part.               *)

Num(n) == <<n, 1>>

\* x / k for an int k > 0: floor division of two ints under Python 2, true
\* division (a float) under Python 3
PyDivide(x, k, py) ==
    IF py = "py2" /\ x[2] = 1 THEN <<x[1] \div k, 1>> ELSE <<x[1], x[2] * k>>

PyTimes(x, k) == <<x[1] * k, x[2]>>

PyMinus(x, y) == <<x[1] * y[2] - y[1] * x[2], x[2] * y[2]>>

\* the integer a %d conversion prints: truncation toward zero
Truncate(x) ==
    IF x[1] >= 0 THEN x[1] \div x[2] ELSE -((-x[1]) \div x[2])

\* _format_who_when(fields), fields = <<name, email, secs, utc-offset-secs>>
FormatWhoWhen(fields, py) ==
    LET offset0 == fields[4]
        offset_sign == IF offset0 < 0 THEN "-" ELSE "+"
        offset == IF offset0 < 0 THEN -offset0 ELSE offset0
        offset_hours == PyDivide(Num(offset), 3600, py)
        offset_minutes ==
            PyMinus(PyDivide(Num(offset), 60, py), PyTimes(offset_hours, 60))
    IN  fields[1] \o <<" <">> \o fields[2] \o <<"> ">> \o FmtD(fields[3])
        \o <<" ", offset_sign>> \o Fmt02D(Truncate(offset_hours))
        \o Fmt02D(Truncate(offset_minutes))

\* Mutant: every path is quoted.
QuotePathAlways(s) == <<"\"">> \o s \o <<"\"">>

\* _quote_path(s)
QuotePath(s) ==
    IF \E i \in 1..Len(s) : s[i] = " " THEN <<"\"">> \o s \o <<"\"">> ELSE s

-----------------------------------------------------------------------------
(* Constructors: the __dict__ each __init__ leaves behind *)

\* the id BlobCommand and CommitCommand derive from mark and lineno
UniqueId(mark, lineno) ==
    IF IsNone(mark) THEN <<"@">> \o FmtD(lineno) ELSE <<":">> \o Val(mark)

BlobCommand(mark, data, lineno) ==
    [name |-> "blob", mark |-> mark, data |-> data, lineno |-> lineno,
     id |-> UniqueId(mark, lineno)]

CheckpointCommand == [name |-> "checkpoint"]

CommitCommand(ref, mark, author, committer, message, from_, merges, file_iter, lineno) ==
    [name |-> "commit", ref |-> ref, mark |-> mark, author |-> author,
     committer |-> committer, message |-> message, from_ |-> from_,
     merges |-> merges, file_iter |-> file_iter, lineno |-> lineno,
     id |-> UniqueId(mark, lineno)]

ProgressCommand(message) == [name |-> "progress", message |-> message]

ResetCommand(ref, from_) == [name |-> "reset", ref |-> ref, from_ |-> from_]

TagCommand(id, from_, tagger, message) ==
    [name |-> "tag", id |-> id, from_ |-> from_, tagger |-> tagger,
     message |-> message]

FileModifyCommand(path, kind, is_executable, dataref, data) ==
    [name |-> "filemodify", path |-> path, kind |-> kind,
     is_executable |-> is_executable, dataref |-> dataref, data |-> data]

FileDeleteCommand(path) == [name |-> "filedelete", path |-> path]

FileCopyCommand(src_path, dest_path) ==
    [name |-> "filecopy", src_path |-> src_path, dest_path |-> dest_path]

FileRenameCommand(old_path, new_path) ==
    [name |-> "filerename", old_path |-> old_path, new_path |-> new_path]

FileDeleteAllCommand == [name |-> "filedeleteall"]

\* the _binary list each __init__ sets
Binary(c) ==
    CASE c.name = "blob" -> {"data"}
      [] c.name = "commit" -> {"file_iter"}
      [] c.name = "filemodify" -> {"data"}
      [] OTHER -> {}

-----------------------------------------------------------------------------
(* Wire rendering: __repr__ *)

\* "\ndata %d\n%s" % (len(payload), payload); len(None) raises TypeError
DataBlock(payload) ==
    <<"\n", "data ">> \o FmtD(Len(payload)) \o <<"\n">> \o payload

BlobRepr(c) ==
    LET mark_line == IF IsNone(c.mark) THEN <<>> ELSE <<"\n", "mark :">> \o Val(c.mark)
    IN  IF IsNone(c.data) THEN Raise("TypeError")
        ELSE Ok(<<"blob">> \o mark_line \o DataBlock(Val(c.data)))

ProgressRepr(c) == Ok(<<"progress ">> \o c.message)

ResetRepr(c) ==
    LET from_line == IF IsNone(c.from_) THEN <<>> ELSE <<"\n", "from :">> \o Val(c.from_)
    IN  Ok(<<"reset ">> \o c.ref \o from_line)

TagRepr(c, py) ==
    LET from_line == IF IsNone(c.from_) THEN <<>> ELSE <<"\n", "from :">> \o Val(c.from_)
        tagger_line ==
            IF IsNone(c.tagger) THEN <<>>
            ELSE <<"\n", "tagger ">> \o FormatWhoWhen(Val(c.tagger), py)
        msg == IF IsNone(c.message) THEN <<>> ELSE DataBlock(Val(c.message))
    IN  Ok(<<"tag ">> \o c.id \o from_line \o tagger_line \o msg)

\* Mutant: the executable flag is tested before the symlink kind.
FileModifyReprExecFirst(c) ==
    LET mode == IF c.is_executable THEN "755"
                ELSE IF c.kind = "symlink" THEN "120000" ELSE "644"
    IN  IF IsNone(c.dataref)
        THEN IF IsNone(c.data) THEN Raise("TypeError")
             ELSE Ok(<<"M ", mode, " ", "inline", " ">> \o c.path
                     \o DataBlock(Val(c.data)))
        ELSE Ok(<<"M ", mode, " ">> \o Val(c.dataref) \o <<" ">> \o c.path)

FileModifyRepr(c) ==
    LET mode == IF c.kind = "symlink" THEN "120000"
                ELSE IF c.is_executable THEN "755" ELSE "644"
    IN  IF IsNone(c.dataref)
        THEN IF IsNone(c.data) THEN Raise("TypeError")
             ELSE Ok(<<"M ", mode, " ", "inline", " ">> \o c.path
                     \o DataBlock(Val(c.data)))
        ELSE Ok(<<"M ", mode, " ">> \o Val(c.dataref) \o <<" ">> \o c.path)

FileDeleteRepr(c) == Ok(<<"D ">> \o c.path)

FileCopyRepr(c) == Ok(<<"C ">> \o QuotePath(c.src_path) \o <<" ">> \o c.dest_path)

FileRenameRepr(c) == Ok(<<"R ">> \o QuotePath(c.old_path) \o <<" ">> \o c.new_path)

\* "%r" % (c,) for a file sub-command
FileRepr(c) ==
    CASE c.name = "filemodify" -> FileModifyRepr(c)
      [] c.name = "filedelete" -> FileDeleteRepr(c)
      [] c.name = "filecopy" -> FileCopyRepr(c)
      [] c.name = "filerename" -> FileRenameRepr(c)
      [] c.name = "filedeleteall" -> Ok(<<"deleteall">>)

(* file_iter is None or one of three representations of the sequence      *)
(* `items`: a list, a one-shot iterator (a generator object) or a callable *)
(* returning a fresh iterator.  iter(x) accepts the first two and raises   *)
(* TypeError on the third; x() accepts only the third.                     *)

\* what iter(self.file_iter) still yields when `pos` items were taken before
IterItems(fi, pos) ==
    IF fi.rep = "iter" THEN SubSeq(fi.items, pos + 1, Len(fi.items)) ELSE fi.items

\* the list comprehension over iter(self.file_iter); `taken` counts the items
\* pulled from the iterator, the one whose render raised included
FileCommandsText(fi, pos) ==
    IF fi.rep = "callable" THEN [res |-> Raise("TypeError"), taken |-> 0]
    ELSE LET rest == IterItems(fi, pos)
             bad == {i \in 1..Len(rest) : ~FileRepr(rest[i]).ok}
         IN  IF bad = {}
             THEN [res |-> Ok(Concat([i \in 1..Len(rest) |->
                                         <<"\n">> \o FileRepr(rest[i]).text])),
                   taken |-> Len(rest)]
             ELSE [res |-> Raise(FileRepr(rest[CHOOSE i \in bad :
                                     \A j \in bad : i <= j]).err),
                   taken |-> CHOOSE i \in bad : \A j \in bad : i <= j]

\* Mutant: the from line is emitted before the data block.
CommitReprFromBeforeData(c, pos, py) ==
    LET mark_line == IF IsNone(c.mark) THEN <<>> ELSE <<"\n", "mark :">> \o Val(c.mark)
        author_line ==
            IF IsNone(c.author) THEN <<>>
            ELSE <<"\n", "author ">> \o FormatWhoWhen(Val(c.author), py)
        committer == <<"committer ">> \o FormatWhoWhen(c.committer, py)
        msg == IF IsNone(c.message) THEN <<>> ELSE DataBlock(Val(c.message))
        from_line == IF IsNone(c.from_) THEN <<>> ELSE <<"\n", "from ">> \o Val(c.from_)
        merge_lines ==
            IF IsNone(c.merges) THEN <<>>
            ELSE Concat([i \in 1..Len(Val(c.merges)) |->
                            <<"\n", "merge ">> \o Val(c.merges)[i]])
        files == IF IsNone(c.file_iter) THEN [res |-> Ok(<<>>), taken |-> 0]
                 ELSE FileCommandsText(Val(c.file_iter), pos)
    IN  IF ~files.res.ok THEN files
        ELSE [res |-> Ok(<<"commit ">> \o c.ref \o mark_line \o author_line
                         \o <<"\n">> \o committer \o from_line \o msg
                         \o merge_lines \o files.res.text),
              taken |-> files.taken]

\* CommitCommand.__repr__: the text or the exception, with the number of
\* items the call took from file_iter
CommitRepr(c, pos, py) ==
    LET mark_line == IF IsNone(c.mark) THEN <<>> ELSE <<"\n", "mark :">> \o Val(c.mark)
        author_line ==
            IF IsNone(c.author) THEN <<>>
            ELSE <<"\n", "author ">> \o FormatWhoWhen(Val(c.author), py)
        committer == <<"committer ">> \o FormatWhoWhen(c.committer, py)
        msg == IF IsNone(c.message) THEN <<>> ELSE DataBlock(Val(c.message))
        from_line == IF IsNone(c.from_) THEN <<>> ELSE <<"\n", "from ">> \o Val(c.from_)
        merge_lines ==
            IF IsNone(c.merges) THEN <<>>
            ELSE Concat([i \in 1..Len(Val(c.merges)) |->
                            <<"\n", "merge ">> \o Val(c.merges)[i]])
        files == IF IsNone(c.file_iter) THEN [res |-> Ok(<<>>), taken |-> 0]
                 ELSE FileCommandsText(Val(c.file_iter), pos)
    IN  IF ~files.res.ok THEN files
        ELSE [res |-> Ok(<<"commit ">> \o c.ref \o mark_line \o author_line
                         \o <<"\n">> \o committer \o msg \o from_line
                         \o merge_lines \o files.res.text),
              taken |-> files.taken]

\* repr(c) for any command: [res, taken]
Repr(c, pos, py) ==
    CASE c.name = "blob" -> [res |-> BlobRepr(c), taken |-> 0]
      [] c.name = "checkpoint" -> [res |-> Ok(<<"checkpoint">>), taken |-> 0]
      [] c.name = "commit" -> CommitRepr(c, pos, py)
      [] c.name = "progress" -> [res |-> ProgressRepr(c), taken |-> 0]
      [] c.name = "reset" -> [res |-> ResetRepr(c), taken |-> 0]
      [] c.name = "tag" -> [res |-> TagRepr(c, py), taken |-> 0]
      [] OTHER -> [res |-> FileRepr(c), taken |-> 0]

-----------------------------------------------------------------------------
(* Debug dump: dump_str *)

RECURSIVE Join(_, _)
\* sep.join(parts)
Join(sep, parts) ==
    IF parts = <<>> THEN <<>>
    ELSE IF Len(parts) = 1 THEN parts[1]
    ELSE parts[1] \o sep \o Join(sep, Tail(parts))

\* the keys of self.__dict__ not starting with '_', in assignment order
PublicFields(c) ==
    CASE c.name = "blob" -> <<"name", "mark", "data", "lineno", "id">>
      [] c.name = "commit" ->
            <<"name", "ref", "mark", "author", "committer", "message", "from_",
              "merges", "file_iter", "lineno", "id">>
      [] c.name = "progress" -> <<"name", "message">>
      [] c.name = "reset" -> <<"name", "ref", "from_">>
      [] c.name = "tag" -> <<"name", "id", "from_", "tagger", "message">>
      [] c.name = "filemodify" ->
            <<"name", "path", "kind", "is_executable", "dataref", "data">>
      [] c.name = "filedelete" -> <<"name", "path">>
      [] c.name = "filecopy" -> <<"name", "src_path", "dest_path">>
      [] c.name = "filerename" -> <<"name", "old_path", "new_path">>
      [] OTHER -> <<"name">>

ClassName(c) ==
    CASE c.name = "blob" -> "BlobCommand"
      [] c.name = "checkpoint" -> "CheckpointCommand"
      [] c.name = "commit" -> "CommitCommand"
      [] c.name = "progress" -> "ProgressCommand"
      [] c.name = "reset" -> "ResetCommand"
      [] c.name = "tag" -> "TagCommand"
      [] c.name = "filemodify" -> "FileModifyCommand"
      [] c.name = "filedelete" -> "FileDeleteCommand"
      [] c.name = "filecopy" -> "FileCopyCommand"
      [] c.name = "filerename" -> "FileRenameCommand"
      [] c.name = "filedeleteall" -> "FileDeleteAllCommand"

(* A Python value as dump_str sees it: [t |-> type, v |-> value], t one of *)
(* "none", "str", "int", "bool", "tuple" (a who/when), "list" (of str),    *)
(* "object" (a non-null file_iter).                                        *)

PyNone == [t |-> "none", v |-> <<>>]
PyStr(text) == [t |-> "str", v |-> text]
PyOptStr(o) == IF IsNone(o) THEN PyNone ELSE PyStr(Val(o))

\* self.__dict__.get(field): None for a name the command does not have
DictGet(c, field) ==
    IF field \notin DOMAIN c THEN PyNone
    ELSE CASE field \in {"name", "kind"} -> PyStr(<<c[field]>>)
           [] field \in {"path", "src_path", "dest_path", "old_path", "new_path",
                         "ref", "id"} -> PyStr(c[field])
           [] field = "message" /\ c.name = "progress" -> PyStr(c[field])
           [] field \in {"mark", "data", "dataref", "from_", "message"} ->
                 PyOptStr(c[field])
           [] field = "lineno" -> [t |-> "int", v |-> c[field]]
           [] field = "is_executable" -> [t |-> "bool", v |-> c[field]]
           [] field = "committer" -> [t |-> "tuple", v |-> c[field]]
           [] field \in {"author", "tagger"} ->
                 IF IsNone(c[field]) THEN PyNone
                 ELSE [t |-> "tuple", v |-> Val(c[field])]
           [] field = "merges" ->
                 IF IsNone(c[field]) THEN PyNone
                 ELSE [t |-> "list", v |-> Val(c[field])]
           [] field = "file_iter" ->
                 IF IsNone(c[field]) THEN PyNone
                 ELSE [t |-> "object", v |-> Val(c[field]).rep]

\* one character of repr(str)
ReprChar(ch, quote, py) ==
    CASE ch = "\n" -> <<"\\n">>
      [] ch = "\t" -> <<"\\t">>
      [] ch = "\\" -> <<"\\\\">>
      [] ch = "NUL" -> <<"\\x00">>
      [] ch = "U+00E9" -> IF py = "py2" THEN <<"\\xe9">> ELSE <<ch>>
      [] ch = quote -> <<"\\", ch>>
      [] OTHER -> <<ch>>

\* repr(s) for a string: double quotes only if s has a ' and no "; under
\* Python 2 a text holding a non-ASCII character is a unicode object
ReprStr(s, py) ==
    LET has(ch) == \E i \in 1..Len(s) : s[i] = ch
        quote == IF has("'") /\ ~has("\"") THEN "\"" ELSE "'"
        prefix == IF py = "py2" /\ has("U+00E9") THEN <<"u">> ELSE <<>>
    IN  prefix \o <<quote>>
        \o Concat([i \in 1..Len(s) |-> ReprChar(s[i], quote, py)]) \o <<quote>>

\* repr(value)
PyRepr(pv, py) ==
    CASE pv.t = "none" -> <<"None">>
      [] pv.t = "str" -> ReprStr(pv.v, py)
      [] pv.t = "int" -> FmtD(pv.v)
      [] pv.t = "bool" -> IF pv.v THEN <<"True">> ELSE <<"False">>
      [] pv.t = "tuple" ->
            <<"(">> \o ReprStr(pv.v[1], py) \o <<", ">> \o ReprStr(pv.v[2], py)
            \o <<", ">> \o FmtD(pv.v[3]) \o <<", ">> \o FmtD(pv.v[4]) \o <<")">>
      [] pv.t = "list" ->
            <<"[">> \o Join(<<", ">>, [i \in 1..Len(pv.v) |-> ReprStr(pv.v[i], py)])
            \o <<"]">>
      [] pv.t = "object" -> <<"<", pv.v, " object>">>

\* Mutant: the test for None is inverted.
RedactWhenNone(c, field, value) ==
    IF field \in Binary(c) /\ value.t = "none" THEN PyStr(<<"(...)">>) ELSE value

\* a field named in _binary is replaced by '(...)' unless it is None
Redact(c, field, value) ==
    IF field \in Binary(c) /\ value.t # "none" THEN PyStr(<<"(...)">>) ELSE value

RECURSIVE DictKeys(_)
\* the keys of the dict `interesting`: each field once, in first-insertion order
DictKeys(fields) ==
    IF fields = <<>> THEN <<>>
    ELSE LET front == DictKeys(SubSeq(fields, 1, Len(fields) - 1))
             last == fields[Len(fields)]
         IN  IF \E i \in 1..Len(front) : front[i] = last THEN front
             ELSE Append(front, last)

\* ImportCommand.dump_str(self, names, verbose=verbose): it raises nothing
BaseDumpStr(c, names, verbose, py) ==
    LET fields == IF IsNone(names) THEN PublicFields(c) ELSE Val(names)
        interesting(f) == Redact(c, f, DictGet(c, f))
        keys == DictKeys(fields)
    IN  IF verbose
        THEN <<ClassName(c), ": ", "{">>
             \o Join(<<", ">>, [i \in 1..Len(keys) |->
                    <<"'", keys[i], "'", ": ">> \o PyRepr(interesting(keys[i]), py)])
             \o <<"}">>
        ELSE Join(<<"\t">>, [i \in 1..Len(fields) |->
                    PyRepr(interesting(fields[i]), py)])

\* the loop of CommitCommand.dump_str over `items`: the lines appended to result
RECURSIVE ChildLines(_, _, _, _)
ChildLines(items, child_lists, verbose, py) ==
    IF items = <<>> THEN <<>>
    ELSE LET f == Head(items)
             rest == ChildLines(Tail(items), child_lists, verbose, py)
         IN  IF IsNone(child_lists) THEN rest
             ELSE IF f.name \notin DOMAIN Val(child_lists) THEN rest
             ELSE <<<<"\t">> \o BaseDumpStr(f, Some(Val(child_lists)[f.name]),
                                           verbose, py)>> \o rest

\* CommitCommand.dump_str: self.file_iter() is a call, which only a callable
\* accepts; None, a list and an iterator raise TypeError
CommitDumpStr(c, names, child_lists, verbose, py) ==
    LET first == BaseDumpStr(c, names, verbose, py)
    IN  IF IsNone(c.file_iter) THEN Raise("TypeError")
        ELSE IF Val(c.file_iter).rep # "callable" THEN Raise("TypeError")
        ELSE Ok(Join(<<"\n">>, <<first>> \o ChildLines(Val(c.file_iter).items,
                                                      child_lists, verbose, py)))

\* c.dump_str(names, child_lists, verbose)
DumpStr(c, names, child_lists, verbose, py) ==
    IF c.name = "commit" THEN CommitDumpStr(c, names, child_lists, verbose, py)
    ELSE Ok(BaseDumpStr(c, names, verbose, py))

-----------------------------------------------------------------------------
(* The values the operations are applied to *)

\* characters of a data or message payload
PayloadChars == {"z", "\n", "NUL", "U+00E9"}
Payloads == SeqsUpTo(PayloadChars, MaxPayloadLen)
OptPayloads == {None} \cup {Some(p) : p \in Payloads}

\* characters of a path
PathChars == {"a", " ", "\""}
Paths == SeqsUpTo(PathChars, MaxPathLen)

OptMarks == {None, Some(<<"1">>)}
OptRefs == {None, Some(<<":", "2">>)}

Person(offset) == <<<<"A">>, <<"a", "@", "x">>, 1000, offset>>

\* utc offsets: every multiple of 7.5 minutes within the bound, and some
\* offsets that are no whole number of minutes
Offsets ==
    {k * 450 : k \in (-MaxOffsetSteps)..MaxOffsetSteps}
    \cup {-7200, 0, 5400, -1, 59, 61, 3599, 3661, 86399}

Whos == {<<<<"A">>, <<"a", "@", "x">>, secs, off>> : secs \in {0, 1000}, off \in Offsets}

FileModifies ==
    {FileModifyCommand(<<"f">>, kind, exec, dataref, data) :
        kind \in {"file", "symlink"}, exec \in BOOLEAN,
        dataref \in OptRefs, data \in OptPayloads}

FileCopies == {FileCopyCommand(src, dest) : src \in Paths, dest \in {<<"b">>, <<"b", " ", "c">>}}

FileRenames ==
    {FileRenameCommand(old, new) : old \in Paths, new \in {<<"b">>, <<"b", " ", "c">>}}

FileDeletes == {FileDeleteCommand(path) : path \in {<<"a">>, <<"a", " ", "b">>}}

\* the file sub-command sequences a Commit is given
FileLists ==
    { <<>>,
      <<FileDeleteCommand(<<"a">>)>>,
      <<FileModifyCommand(<<"f">>, "file", FALSE, None, Some(<<"z", "\n">>)),
        FileCopyCommand(<<"a", " ">>, <<"b">>),
        FileRenameCommand(<<"a">>, <<"b">>)>>,
      <<FileModifyCommand(<<"f">>, "symlink", TRUE, Some(<<":", "2">>), Some(<<"z">>)),
        FileDeleteAllCommand>>,
      <<FileDeleteCommand(<<"a">>),
        FileModifyCommand(<<"f">>, "file", TRUE, None, None),
        FileDeleteCommand(<<"b">>)>> }

FileIters ==
    {None} \cup {Some([rep |-> r, items |-> l]) :
                    r \in {"list", "iter", "callable"}, l \in FileLists}

\* a Commit's message never holds the character "z" of the data payloads
CommitMessages == {None, Some(<<>>), Some(<<"m", "\n">>), Some(<<"U+00E9">>)}

Commits ==
    {CommitCommand(<<"r">>, mark, author, committer, message, from_, merges, fi, 3) :
        mark \in OptMarks,
        author \in {None, Some(Person(-7200))},
        committer \in {Person(5400)},
        message \in CommitMessages,
        from_ \in OptRefs,
        merges \in {None, Some(<<>>), Some(<< <<":", "3">>, <<":", "4">> >>)},
        fi \in FileIters}

Blobs == {BlobCommand(mark, data, lineno) :
            mark \in OptMarks, data \in OptPayloads, lineno \in {0, 7}}

Tags == {TagCommand(<<"t">>, from_, tagger, message) :
            from_ \in {None, Some(<<"2">>)},
            tagger \in {None, Some(Person(5400))},
            message \in OptPayloads}

Resets == {ResetCommand(<<"r">>, from_) : from_ \in {None, Some(<<"2">>)}}

Commands ==
    Blobs \cup {CheckpointCommand} \cup Commits
    \cup {ProgressCommand(<<"p">>)} \cup Resets \cup Tags
    \cup FileModifies \cup FileDeletes \cup FileCopies \cup FileRenames
    \cup {FileDeleteAllCommand}

\* the `names` arguments tried: the default and two explicit lists
NamesArgs ==
    {None,
     Some(<<"data", "mark", "file_iter", "nosuch">>),
     Some(<<"path", "data", "data">>)}

\* the `child_lists` arguments tried for a Commit
ChildListsArgs ==
    {None,
     Some(<<>>),
     Some([k \in {"filemodify", "filecopy"} |->
             IF k = "filemodify" THEN <<"path", "data">>
             ELSE <<"src_path", "dest_path">>])}

-----------------------------------------------------------------------------
(* The state machine: a command is constructed, then rendered and dumped   *)

NoWho == <<<<>>, <<>>, 0, 0>>

Init ==
    /\ cmd \in Commands
    /\ python \in {"py2", "py3"}
    /\ iterPos = 0
    /\ renders = <<>>
    /\ dump = None
    /\ who = NoWho
    /\ whoOut = None

IsOneShot(c) ==
    /\ c.name = "commit"
    /\ ~IsNone(c.file_iter)
    /\ Val(c.file_iter).rep = "iter"

\* repr(cmd)
Render ==
    /\ Len(renders) < MaxRenders
    /\ LET r == Repr(cmd, iterPos, python)
       IN  /\ renders' = Append(renders, r.res)
           /\ iterPos' = IF IsOneShot(cmd) THEN iterPos + r.taken ELSE iterPos
    /\ UNCHANGED <<cmd, dump, who, whoOut, python>>

\* cmd.dump_str(names, child_lists, verbose); it changes nothing of cmd, so
\* one call is recorded
Dump ==
    /\ dump = None
    /\ \E names \in NamesArgs, verbose \in BOOLEAN :
       \E child_lists \in IF cmd.name = "commit" THEN ChildListsArgs ELSE {None} :
          dump' = Some([names |-> names, child_lists |-> child_lists,
                        verbose |-> verbose,
                        res |-> DumpStr(cmd, names, child_lists, verbose, python)])
    /\ UNCHANGED <<cmd, iterPos, renders, who, whoOut, python>>

Next == Render \/ Dump

Spec == Init /\ [][Next]_vars

(* _format_who_when on its own *)

InitWho ==
    /\ who \in Whos
    /\ python \in {"py2", "py3"}
    /\ whoOut = None
    /\ cmd = CheckpointCommand
    /\ iterPos = 0
    /\ renders = <<>>
    /\ dump = None

FormatWho ==
    /\ whoOut = None
    /\ whoOut' = Some(FormatWhoWhen(who, python))
    /\ UNCHANGED <<cmd, iterPos, renders, dump, who, python>>

NextWho == FormatWho

SpecWho == InitWho /\ [][NextWho]_vars

-----------------------------------------------------------------------------
(* Helpers of the properties *)

\* text has sub as a contiguous run
Contains(text, sub) ==
    \E i \in 0..(Len(text) - Len(sub)) : SubSeq(text, i + 1, i + Len(sub)) = sub

HasToken(text, tok) == \E i \in 1..Len(text) : text[i] = tok

EndsWith(text, sub) ==
    /\ Len(sub) <= Len(text)
    /\ SubSeq(text, Len(text) - Len(sub) + 1, Len(text)) = sub

RECURSIVE SplitOn(_, _)
\* text.split(sep) for a one-token separator
SplitOn(text, sep) ==
    IF ~HasToken(text, sep) THEN <<text>>
    ELSE LET i == CHOOSE k \in 1..Len(text) :
                      text[k] = sep /\ \A j \in 1..(k - 1) : text[j] # sep
         IN  <<SubSeq(text, 1, i - 1)>> \o SplitOn(SubSeq(text, i + 1, Len(text)), sep)

\* bytes a character takes in the stream (UTF-8)
Utf8Len(ch) == IF ch = "U+00E9" THEN 2 ELSE 1

RECURSIVE ByteLen(_)
\* bytes a payload takes in the stream
ByteLen(payload) ==
    IF payload = <<>> THEN 0 ELSE Utf8Len(Head(payload)) + ByteLen(Tail(payload))

IsDigits(text) ==
    /\ text # <<>>
    /\ \A i \in 1..Len(text) :
          text[i] \in {"0", "1", "2", "3", "4", "5", "6", "7", "8", "9"}

Abs(n) == IF n < 0 THEN -n ELSE n

-----------------------------------------------------------------------------
(* C4: _format_who_when renders <<name, email, secs, offset>> as           *)
(* "name <email> secs SHHMM" with S the sign of offset, HH = |offset| div  *)
(* 3600 and MM = (|offset| mod 3600) div 60, both zero-padded to two       *)
(* digits, for every integer offset.                                       *)

WhoWhenAsClaimed(w) ==
    w[1] \o <<" <">> \o w[2] \o <<"> ">> \o FmtD(w[3])
    \o <<" ", IF w[4] >= 0 THEN "+" ELSE "-">>
    \o Fmt02D(Abs(w[4]) \div 3600) \o Fmt02D((Abs(w[4]) % 3600) \div 60)

\* C4: every result of _format_who_when is the claimed text
C4_WhoWhenFormat ==
    ~IsNone(whoOut) => Val(whoOut) = WhoWhenAsClaimed(who)

\* what does hold: the claimed text whenever "/" is integer division or the
\* offset is a whole number of hours
C4_WhoWhenFormatIntegerDivision ==
    (~IsNone(whoOut) /\ (python = "py2" \/ who[4] % 3600 = 0))
        => Val(whoOut) = WhoWhenAsClaimed(who)

-----------------------------------------------------------------------------
(* C1: a rendered Commit is, in this order: "commit <ref>"; "\nmark :<mark>"*)
(* only if mark is present; "\nauthor <who-when>" only if author is        *)
(* present; always "\ncommitter <who-when>"; "\ndata <len>\n<message>"     *)
(* only if message is present (an empty message still gives "data 0");     *)
(* "\nfrom <from_>" only if from_ is present; one "\nmerge <ref>" per      *)
(* merge; one "\n" + wire render per file sub-command, in order.  Nothing  *)
(* else is emitted, and the render succeeds whenever file_iter is None, a  *)
(* list or a fresh iterator whose sub-commands all render.  <len> is taken *)
(* here as the encoder's len(message); its unit is the subject of C3.      *)

RECURSIVE MergeSegments(_)
MergeSegments(merges) ==
    IF merges = <<>> THEN <<>>
    ELSE <<"\n", "merge ">> \o Head(merges) \o MergeSegments(Tail(merges))

RECURSIVE FileSegments(_)
FileSegments(items) ==
    IF items = <<>> THEN <<>>
    ELSE <<"\n">> \o FileRepr(Head(items)).text \o FileSegments(Tail(items))

CommitItems(c) == IF IsNone(c.file_iter) THEN <<>> ELSE Val(c.file_iter).items

CommitSegments(c, py) ==
    << <<"commit ">> \o c.ref,
       IF IsNone(c.mark) THEN <<>> ELSE <<"\n", "mark :">> \o Val(c.mark),
       IF IsNone(c.author) THEN <<>>
       ELSE <<"\n", "author ">> \o FormatWhoWhen(Val(c.author), py),
       <<"\n", "committer ">> \o FormatWhoWhen(c.committer, py),
       IF IsNone(c.message) THEN <<>>
       ELSE <<"\n", "data ">> \o FmtD(Len(Val(c.message))) \o <<"\n">> \o Val(c.message),
       IF IsNone(c.from_) THEN <<>> ELSE <<"\n", "from ">> \o Val(c.from_),
       IF IsNone(c.merges) THEN <<>> ELSE MergeSegments(Val(c.merges)),
       FileSegments(CommitItems(c)) >>

\* the wire encoder can walk file_iter and every sub-command renders
Walkable(c) ==
    /\ IsNone(c.file_iter) \/ Val(c.file_iter).rep \in {"list", "iter"}
    /\ \A i \in 1..Len(CommitItems(c)) : FileRepr(CommitItems(c)[i]).ok

\* C1: a rendered Commit is the claimed segments in the claimed order
C1_CommitLayout ==
    (cmd.name = "commit" /\ Len(renders) >= 1) =>
        /\ renders[1].ok => renders[1].text = Concat(CommitSegments(cmd, python))
        /\ Walkable(cmd) => renders[1].ok

C1_Witness ==
    /\ cmd.name = "commit" /\ Len(renders) >= 1 /\ renders[1].ok
    /\ IsNone(cmd.mark) /\ IsNone(cmd.author)
    /\ cmd.message = Some(<<>>)
    /\ ~IsNone(cmd.from_)
    /\ ~IsNone(cmd.merges) /\ Len(Val(cmd.merges)) = 2
    /\ Len(CommitItems(cmd)) = 3

-----------------------------------------------------------------------------
(* C2: rendering the same command value twice in succession gives the same *)
(* output, also for a Commit whose file_iter is a one-shot iterator.       *)

\* C2: the second render of a value equals the first
C2_RenderTwiceSame ==
    Len(renders) >= 2 => renders[2] = renders[1]

\* what does hold: every value but a Commit over a one-shot iterator
C2_RenderTwiceSameRestartable ==
    (Len(renders) >= 2 /\ ~IsOneShot(cmd)) => renders[2] = renders[1]

-----------------------------------------------------------------------------
(* C3: in every rendered "data <len>\n<payload>" block (Blob data, Commit  *)
(* message, Tag message, inline FileModify data) <len> is the number of    *)
(* bytes of the payload, and the payload follows whole.                    *)

ByteBlock(payload) ==
    <<"\n", "data ">> \o FmtD(ByteLen(payload)) \o <<"\n">> \o payload

\* C3: every data block carries the byte length of its payload
C3_DataLenIsByteLen ==
    (Len(renders) >= 1 /\ renders[1].ok) =>
        LET text == renders[1].text
        IN  /\ cmd.name = "blob" => EndsWith(text, ByteBlock(Val(cmd.data)))
            /\ (cmd.name = "tag" /\ ~IsNone(cmd.message))
                  => EndsWith(text, ByteBlock(Val(cmd.message)))
            /\ (cmd.name = "filemodify" /\ IsNone(cmd.dataref))
                  => EndsWith(text, ByteBlock(Val(cmd.data)))
            /\ (cmd.name = "commit" /\ ~IsNone(cmd.message))
                  => Contains(text, ByteBlock(Val(cmd.message)))

\* what does hold: the claim for payloads of one-byte characters
C3_DataLenSingleByte ==
    (Len(renders) >= 1 /\ renders[1].ok) =>
        LET text == renders[1].text
            plain(p) == ~HasToken(p, "U+00E9")
        IN  /\ (cmd.name = "blob" /\ plain(Val(cmd.data)))
                  => EndsWith(text, ByteBlock(Val(cmd.data)))
            /\ (cmd.name = "tag" /\ ~IsNone(cmd.message) /\ plain(Val(cmd.message)))
                  => EndsWith(text, ByteBlock(Val(cmd.message)))
            /\ (cmd.name = "filemodify" /\ IsNone(cmd.dataref) /\ plain(Val(cmd.data)))
                  => EndsWith(text, ByteBlock(Val(cmd.data)))
            /\ (cmd.name = "commit" /\ ~IsNone(cmd.message) /\ plain(Val(cmd.message)))
                  => Contains(text, ByteBlock(Val(cmd.message)))

-----------------------------------------------------------------------------
(* C5: a FileModify renders as "M <mode> <target> <path>": mode is 120000  *)
(* for a symlink whatever is_executable, else 755 if executable, else 644; *)
(* with a dataref the target is the dataref and no data block follows,     *)
(* even if data is set; without one the target is "inline" and             *)
(* "\ndata <len>\n<data>" follows the path.                                *)

ClaimedMode(c) ==
    IF c.kind = "symlink" THEN "120000"
    ELSE IF c.is_executable THEN "755" ELSE "644"

\* C5: a rendered FileModify has the claimed mode, target and data block
C5_FileModifyLayout ==
    (cmd.name = "filemodify" /\ Len(renders) >= 1
        /\ ~(IsNone(cmd.dataref) /\ IsNone(cmd.data))) =>
        LET text == renders[1].text
            inlineHead == <<"M ", ClaimedMode(cmd), " ", "inline", " ">> \o cmd.path
                          \o <<"\n", "data ">>
            tailLen == 1 + Len(Val(cmd.data))
        IN  /\ renders[1].ok
            /\ ~IsNone(cmd.dataref) =>
                  /\ text = <<"M ", ClaimedMode(cmd), " ">> \o Val(cmd.dataref)
                            \o <<" ">> \o cmd.path
                  /\ ~HasToken(text, "data ")
            /\ IsNone(cmd.dataref) =>
                  /\ Len(text) > Len(inlineHead) + tailLen
                  /\ SubSeq(text, 1, Len(inlineHead)) = inlineHead
                  /\ IsDigits(SubSeq(text, Len(inlineHead) + 1, Len(text) - tailLen))
                  /\ EndsWith(text, <<"\n">> \o Val(cmd.data))

C5_Witness ==
    /\ cmd.name = "filemodify" /\ Len(renders) >= 1 /\ renders[1].ok
    /\ cmd.kind = "symlink" /\ cmd.is_executable
    /\ ~IsNone(cmd.dataref) /\ ~IsNone(cmd.data) /\ Len(Val(cmd.data)) = MaxPayloadLen

-----------------------------------------------------------------------------
(* C8: FileCopy renders as "C <src> <dest>" and FileRename as              *)
(* "R <old> <new>", the source path wrapped in double quotes if and only   *)
(* if it holds a space, its characters unchanged, the destination verbatim.*)

QuotingAsClaimed(letter, src, dest, text) ==
    LET mid == SubSeq(text, 2, Len(text) - Len(dest) - 1)
        spaced == \E i \in 1..Len(src) : src[i] = " "
    IN  /\ Len(text) >= Len(src) + Len(dest) + 2
        /\ text[1] = letter
        /\ EndsWith(text, <<" ">> \o dest)
        /\ spaced => mid = <<"\"">> \o src \o <<"\"">>
        /\ ~spaced => mid = src

\* C8: the source path is quoted iff it holds a space, the rest verbatim
C8_PathQuoting ==
    Len(renders) >= 1 =>
        /\ cmd.name = "filecopy" =>
              /\ renders[1].ok
              /\ QuotingAsClaimed("C ", cmd.src_path, cmd.dest_path, renders[1].text)
        /\ cmd.name = "filerename" =>
              /\ renders[1].ok
              /\ QuotingAsClaimed("R ", cmd.old_path, cmd.new_path, renders[1].text)

C8_Witness ==
    /\ cmd.name = "filecopy" /\ Len(renders) >= 1 /\ renders[1].ok
    /\ HasToken(cmd.src_path, " ") /\ HasToken(cmd.src_path, "\"")
    /\ HasToken(cmd.dest_path, " ")

-----------------------------------------------------------------------------
(* C6: the output of dump_str, verbose or not, with the default or an      *)
(* explicit names list, shows '(...)' in place of a non-null redacted      *)
(* field (Blob.data, FileModify.data, Commit.file_iter), shows None for a  *)
(* null one, and holds no character of the payload.  The character "z"     *)
(* occurs in the data payloads only, so its presence in the output tells   *)
(* that payload text got through.                                          *)

RedactedField(c) == IF c.name = "commit" THEN "file_iter" ELSE "data"

\* C6: a dump shows the placeholder (or None) and no payload character
C6_DumpRedacts ==
    (~IsNone(dump) /\ Val(dump).res.ok
        /\ cmd.name \in {"blob", "filemodify", "commit"}) =>
        LET d == Val(dump)
            text == d.res.text
            first == SplitOn(text, "\n")[1]
            f == RedactedField(cmd)
            fields == IF IsNone(d.names) THEN PublicFields(cmd) ELSE Val(d.names)
            shown == IF IsNone(cmd[f]) THEN <<"None">> ELSE <<"'", "(...)", "'">>
            parts == SplitOn(first, "\t")
        IN  /\ ~HasToken(text, "z")
            /\ ~d.verbose =>
                  /\ Len(parts) = Len(fields)
                  /\ \A i \in 1..Len(fields) : fields[i] = f => parts[i] = shown
            /\ (d.verbose /\ \E i \in 1..Len(fields) : fields[i] = f) =>
                  Contains(first, <<"'", f, "'", ": ">> \o shown)

C6_Witness ==
    /\ cmd.name = "filemodify" /\ ~IsNone(dump) /\ Val(dump).res.ok
    /\ ~IsNone(cmd.data) /\ HasToken(Val(cmd.data), "z")
    /\ Val(dump).verbose /\ ~IsNone(Val(dump).names)
    /\ HasToken(Val(dump).res.text, "(...)")

-----------------------------------------------------------------------------
(* C7: CommitCommand.dump_str returns the base dump line followed by one   *)
(* tab-indented line per file sub-command whose kind is a key of           *)
(* child_lists, in order, dumped with the names mapped for its kind; the   *)
(* other sub-commands, and all of them when child_lists is None, give no   *)
(* line.  This for every Commit given a file_iter, whatever representation *)
(* holds its sub-commands (a list, an iterator, a callable).               *)

RECURSIVE MappedItems(_, _)
\* the sub-commands whose kind is a key of child_lists
MappedItems(items, child_lists) ==
    IF items = <<>> \/ IsNone(child_lists) THEN <<>>
    ELSE (IF Head(items).name \in DOMAIN Val(child_lists) THEN <<Head(items)>> ELSE <<>>)
         \o MappedItems(Tail(items), child_lists)

DumpLinesAsClaimed(c, d, py) ==
    LET lines == SplitOn(d.res.text, "\n")
        mapped == MappedItems(CommitItems(c), d.child_lists)
    IN  /\ d.res.ok
        /\ Len(lines) = 1 + Len(mapped)
        /\ lines[1] = BaseDumpStr(c, d.names, d.verbose, py)
        /\ \A j \in 1..Len(mapped) :
              lines[j + 1] = <<"\t">> \o BaseDumpStr(mapped[j],
                                  Some(Val(d.child_lists)[mapped[j].name]), d.verbose, py)

\* C7: a Commit dump is the base line and one line per mapped sub-command
C7_CommitDumpLines ==
    (cmd.name = "commit" /\ ~IsNone(dump) /\ ~IsNone(cmd.file_iter))
        => DumpLinesAsClaimed(cmd, Val(dump), python)

\* what does hold: the claim for a Commit whose file_iter is a callable
C7_CommitDumpLinesCallable ==
    (cmd.name = "commit" /\ ~IsNone(dump) /\ ~IsNone(cmd.file_iter)
        /\ Val(cmd.file_iter).rep = "callable")
        => DumpLinesAsClaimed(cmd, Val(dump), python)

-----------------------------------------------------------------------------
(* C9: rendering a FileModify whose dataref and data are both None either  *)
(* raises MalformedCommand or renders an empty payload ("data 0"), nothing *)
(* else; a Commit render walking such a sub-command raises that error or   *)
(* returns the whole text.                                                 *)

HasMalformed(c) ==
    \E i \in 1..Len(CommitItems(c)) :
        LET f == CommitItems(c)[i]
        IN  f.name = "filemodify" /\ IsNone(f.dataref) /\ IsNone(f.data)

\* C9: a FileModify without dataref and data raises MalformedCommand or renders "data 0"
C9_MalformedPolicy ==
    Len(renders) >= 1 =>
        /\ (cmd.name = "filemodify" /\ IsNone(cmd.dataref) /\ IsNone(cmd.data)) =>
              \/ ~renders[1].ok /\ renders[1].err = "MalformedCommand"
              \/ /\ renders[1].ok
                 /\ renders[1].text = <<"M ", ClaimedMode(cmd), " ", "inline", " ">>
                                      \o cmd.path \o <<"\n", "data ", "0", "\n">>
        /\ (cmd.name = "commit" /\ ~IsNone(cmd.file_iter)
               /\ Val(cmd.file_iter).rep \in {"list", "iter"} /\ HasMalformed(cmd)) =>
              \/ ~renders[1].ok /\ renders[1].err = "MalformedCommand"
              \/ /\ renders[1].ok
                 /\ Contains(renders[1].text, <<"\n", "data ", "0", "\n">>)

\* what does hold: the render raises, synchronously and with no text returned
C9_MalformedRaises ==
    Len(renders) >= 1 =>
        /\ (cmd.name = "filemodify" /\ IsNone(cmd.dataref) /\ IsNone(cmd.data)) =>
              ~renders[1].ok /\ renders[1].text = <<>>
        /\ (cmd.name = "commit" /\ HasMalformed(cmd)) =>
              ~renders[1].ok /\ renders[1].text = <<>>

-----------------------------------------------------------------------------
(* C10: the wire render and the debug dump accept the same Commit values:  *)
(* __repr__ succeeds on a fresh Commit if and only if dump_str does.       *)

\* C10: __repr__ and dump_str succeed on the same Commits
C10_SameCommitsAccepted ==
    (cmd.name = "commit" /\ Len(renders) >= 1 /\ ~IsNone(dump)) =>
        (renders[1].ok <=> Val(dump).res.ok)

====
